---------------------------- MODULE Spec2Model ----------------------------
(***************************************************************************)
(* The payment programs of SOLID/src/solid_principles:                     *)
(*   "initial"  initial_code.py              (monolithic PaymentProcessor) *)
(*   "srp"      single_reponsability/after.py (PaymentService, dict data)  *)
(*   "ocp"      open_close/after.py           (PaymentService, strategies) *)
(*   "lsp"      liskov_substitution/after.py  (PaymentService, protocols)  *)
(*   "isp"      interfaces_segregations/after.py (StripePaymentProcessor   *)
(*              returning PaymentResponse; it has no PaymentService)       *)
(* One behaviour runs one of the programs.  A thread of the caller runs    *)
(* one call at a time; the gateway (Stripe), the printed confirmations and *)
(* the file transactions.log are shared by all threads.                    *)
(***************************************************************************)
EXTENDS Integers, Sequences, FiniteSets, TLC

(* ------------------------------ bounds -------------------------------- *)
\* calls (over all threads) one behaviour makes
MaxCalls == 2
\* calls one behaviour of interfaces_segregations makes (a charge, its refund
\* and a second refund need three)
MaxIspCalls == 3
\* threads the caller may run calls on
MaxThreads == 2

Threads == 1..MaxThreads

(* ------------------------------- data --------------------------------- *)
\* Python's None, where a string is expected
None == "None"
\* a customer name longer than the buffer of a Python file object
LongName == "Name_longer_than_io_buffer"
Names == {"", "Al", LongName}
Emails == {None, "", "a@x.com"}
Phones == {None, "+1555"}
\* an amount the validators reject (as in the source's own run) and one they accept
Amounts == {0, 100}
Sources == {"", "tok_visa"}
Versions == {"initial", "srp", "ocp", "lsp", "isp"}
\* the programs whose data are dicts, and those whose data are pydantic models
DictVersions == {"initial", "srp"}
\* the programs that have a PaymentService
ServiceVersions == {"srp", "ocp", "lsp"}

\* ContactInfo: `extra` says that the dict holds a key other than email and
\* phone; a pydantic ContactInfo ignores such a field, so there it is FALSE.
ContactInfos(v) ==
    [email : Emails, phone : Phones,
     extra : IF v \in DictVersions THEN BOOLEAN ELSE {FALSE}]

Customers(v) == [name : Names, contact_info : ContactInfos(v)]

Payments == [amount : Amounts, source : Sources]

\* the customers of the calls of interfaces_segregations, which reads the
\* customer's name only
IspCustomers ==
    [name : {"Al"},
     contact_info : {[email |-> "a@x.com", phone |-> None, extra |-> FALSE],
                     [email |-> None, phone |-> "+1555", extra |-> FALSE]}]

\* the customers a caller of program v passes
CallCustomers(v) == IF v = "isp" THEN IspCustomers ELSE Customers(v)

\* the customers and payments of the calls that run concurrently
ConcCustomers ==
    [name : {"Al", LongName},
     contact_info : {[email |-> "a@x.com", phone |-> None, extra |-> FALSE]}]

ConcPayments == {[amount |-> 100, source |-> "tok_visa"]}

\* Python truth of an Optional[str]
Truthy(s) == s # None /\ s # ""

\* Python truth of contact_info: a dict is false when empty (or the key is
\* missing, .get giving None); a pydantic model instance is always true.
ContactInfoTruthy(v, ci) ==
    IF v \in DictVersions
    THEN ci.email # None \/ ci.phone # None \/ ci.extra
    ELSE TRUE

(* ------------------------------ errors -------------------------------- *)
NoError == [type |-> "none", msg |-> ""]

ValueError(m) == [type |-> "ValueError", msg |-> m]

StripeError(m) == [type |-> "StripeError", msg |-> m]

OSError == [type |-> "OSError", msg |-> "transactions.log"]

\* an attribute looked up on an object that has none of that name
AttributeError(m) == [type |-> "AttributeError", msg |-> m]

\* NotImplemented("Method not implemented"): NotImplemented is not callable
TypeError == [type |-> "TypeError", msg |-> "'NotImplementedType' object is not callable"]

MissingName == ValueError("Invalid customer data: missing name")

MissingContactInfo(v) ==
    ValueError(IF v = "srp" THEN "Invalid customer data: missing contact info"
               ELSE "Invalid customer data: missing contact_info")

NoReachableChannel == ValueError("Invalid customer data: missing email and phone")

MissingSource(v) ==
    ValueError(IF v = "srp" THEN "Invalida payment data" ELSE "Invalid payment data")

NonPositiveAmount == ValueError("Invalid payment data: amount must be greater than 0")

\* the texts of the errors the gateway raises
GatewayErrors == {"card_declined", "api_connection_error"}
\* the status of a Charge the gateway returns
GatewayStatuses == {"succeeded", "pending", "failed"}

(* ----------------------------- validators ----------------------------- *)
\* a CustomerValidator that looks at the contact info before the name
CustomerValidateContactFirst(v, c) ==
    IF ~ContactInfoTruthy(v, c.contact_info) THEN MissingContactInfo(v)
    ELSE IF v \notin DictVersions
            /\ ~(Truthy(c.contact_info.email) \/ Truthy(c.contact_info.phone))
         THEN NoReachableChannel
    ELSE IF ~Truthy(c.name) THEN MissingName
    ELSE NoError

\* a CustomerValidator without the email-or-phone check
CustomerValidateNoChannelCheck(v, c) ==
    IF ~Truthy(c.name) THEN MissingName
    ELSE IF ~ContactInfoTruthy(v, c.contact_info) THEN MissingContactInfo(v)
    ELSE NoError

\* CustomerValidator.validate: the error raised, NoError when it returns
CustomerValidate(v, c) ==
    IF ~Truthy(c.name) THEN MissingName
    ELSE IF ~ContactInfoTruthy(v, c.contact_info) THEN MissingContactInfo(v)
    ELSE IF v \notin DictVersions
            /\ ~(Truthy(c.contact_info.email) \/ Truthy(c.contact_info.phone))
         THEN NoReachableChannel
    ELSE NoError

\* a PaymentDataValidator that checks the amount before the source
PaymentValidateAmountFirst(v, p) ==
    IF v \notin DictVersions /\ p.amount <= 0 THEN NonPositiveAmount
    ELSE IF ~Truthy(p.source) THEN MissingSource(v)
    ELSE NoError

\* PaymentDataValidator.validate: the error raised, NoError when it returns
PaymentValidate(v, p) ==
    IF ~Truthy(p.source) THEN MissingSource(v)
    ELSE IF v \notin DictVersions /\ p.amount <= 0 THEN NonPositiveAmount
    ELSE NoError

(* ------------------------------- state -------------------------------- *)
VARIABLES
    version,    \* the program that runs
    threads,    \* the threads the caller runs calls on
    notifier,   \* notifier[t]: the notifier of thread t's PaymentService
    call,       \* call[t]: the call thread t is in: its frame, and what it did
                \* (sent: the confirmations it sent, "Email sent to ...")
    sink,       \* the lines of transactions.log
    ledger,     \* the charges the gateway created
    refunds,    \* the refunds the gateway created
    apiKey,     \* stripe.api_key
    calls       \* calls begun so far

vars == <<version, threads, notifier, call, sink, ledger, refunds, apiKey, calls>>

NoCharge == [status |-> "none", amount |-> 0, id |-> 0]

\* PaymentResponse of interfaces_segregations; transaction_id 0 is None
NoResponse == [status |-> "none", amount |-> 0, transaction_id |-> 0, message |-> ""]

BlankCustomer ==
    [name |-> "", contact_info |-> [email |-> None, phone |-> None, extra |-> FALSE]]

BlankPayment == [amount |-> 0, source |-> ""]

\* what the gateway answered in a call: nothing yet
NoOutcome == [ok |-> FALSE, status |-> "none", msg |-> "", id |-> 0]

\* a thread that is in no call.  Of the fields, pc .. buf are the frame of
\* process_transaction; the others record what the call did: the confirmations
\* sent, the stages run, the gateway's answer, whether the file failed, how
\* often the gateway, the notifier and the logger were invoked, the lines the
\* call put in the file, the call's number, and the file when the call began;
\* op is the method called, transaction_id the argument of refund_payment,
\* key0 is stripe.api_key when the call began.
Idle ==
    [pc |-> "idle", customer |-> BlankCustomer, payment |-> BlankPayment,
     charge |-> NoCharge, response |-> NoResponse, raised |-> NoError,
     returned |-> "nothing", failedAt |-> "", buf |-> <<>>,
     sent |-> <<>>, stages |-> <<>>, gateway |-> NoOutcome, sinkError |-> FALSE,
     nGateway |-> 0, nNotify |-> 0, nLog |-> 0, nLines |-> 0,
     tx |-> 0, sink0 |-> <<>>,
     op |-> "", transaction_id |-> 0, key0 |-> None]

\* the notifiers a PaymentService can be built with: the single Notifier of
\* srp; EmailNotifier, SMSNotifier of ocp and lsp; in lsp also a subclass of
\* the Notifier protocol that keeps the protocol's send_confirmation ("base").
NotifierKinds(v) ==
    CASE v = "lsp" -> {"email", "sms", "base"}
      [] v = "ocp" -> {"email", "sms"}
      [] OTHER -> {"single"}

\* the value os.getenv("STRIPE_API_KEY") gives
EnvKey == "sk_env"

\* a first line that gives the amount in whole units instead of as passed
PaidLineInUnits(name, amount, tx) ==
    [kind |-> "paid", name |-> name, amount |-> amount \div 100, status |-> "", tx |-> tx]

\* the two lines TransactionLogger.log writes; tx tags the call that wrote
\* the line (it is not in the file)
PaidLine(name, amount, tx) ==
    [kind |-> "paid", name |-> name, amount |-> amount, status |-> "", tx |-> tx]

StatusLine(status, tx) ==
    [kind |-> "status", name |-> "", amount |-> 0, status |-> status, tx |-> tx]

\* a line longer than the file object's buffer is written to the file by
\* write() itself; a shorter one stays buffered until the file is closed
WrittenThrough(line) == line.name = LongName

Set(t, rec) == call' = [call EXCEPT ![t] = rec]

\* a process_transaction that swallows the exception and returns the charge
RaiseSwallowed(t, e, stage) ==
    [call[t] EXCEPT !.pc = "done", !.returned = "charge", !.buf = <<>>]

\* the call of thread t ends with exception e raised to the caller
Raise(t, e, stage) ==
    [call[t] EXCEPT !.pc = "failed", !.raised = e, !.failedAt = stage, !.buf = <<>>]

\* the call of thread t returns None before its end (initial_code's `return`)
ReturnNone(t, stage) ==
    [call[t] EXCEPT !.pc = "done", !.returned = "None", !.failedAt = stage]

InitWith(ths) ==
    /\ version \in Versions
    /\ threads = ths
    /\ notifier \in [Threads -> NotifierKinds(version)]
    /\ \A t \in Threads \ ths : notifier[t] = CHOOSE k \in NotifierKinds(version) : TRUE
    /\ call = [t \in Threads |-> Idle]
    /\ sink = <<>>
    /\ ledger = <<>>
    /\ refunds = <<>>
    /\ apiKey = None
    /\ calls = 0

Init == InitWith({1})

(* ------------------------------ actions ------------------------------- *)
\* the calls one behaviour of the running program makes
CallBound == IF version = "isp" THEN MaxIspCalls ELSE MaxCalls

\* the caller calls process_transaction(customer_data, payment_data)
Begin(t, custs, pays) ==
    /\ t \in threads
    /\ call[t].pc = "idle"
    /\ calls < CallBound
    /\ \E c \in custs, p \in pays :
          Set(t, [Idle EXCEPT !.pc = IF version = "isp" THEN "isp_process"
                                    ELSE "validate_customer",
                              !.op = "process_transaction",
                              !.customer = c, !.payment = p,
                              !.tx = calls + 1, !.sink0 = sink, !.key0 = apiKey])
    /\ calls' = calls + 1
    /\ UNCHANGED <<version, threads, notifier, sink, ledger, refunds, apiKey>>

\* self.customer_validator.validate(customer_data) (initial: the first two checks)
ValidateCustomer(t) ==
    /\ call[t].pc = "validate_customer"
    /\ LET e == CustomerValidate(version, call[t].customer) IN
         Set(t, [(IF e = NoError THEN [call[t] EXCEPT !.pc = "validate_payment"]
                 ELSE IF version = "initial" THEN ReturnNone(t, "validation")
                 ELSE Raise(t, e, "validation"))
                EXCEPT !.stages = Append(@, "customer")])
    /\ UNCHANGED <<version, threads, notifier, sink, ledger, refunds, apiKey, calls>>

\* a PaymentService whose process_transaction goes on to the processor
\* whatever the payment validator raised
ValidatePaymentIgnored(t) ==
    /\ call[t].pc = "validate_payment"
    /\ Set(t, [call[t] EXCEPT !.pc = "process", !.stages = Append(@, "payment")])
    /\ UNCHANGED <<version, threads, notifier, sink, ledger, refunds, apiKey, calls>>

\* self.payment_validator.validate(payment_data) (initial: the third check)
ValidatePayment(t) ==
    /\ call[t].pc = "validate_payment"
    /\ LET e == PaymentValidate(version, call[t].payment) IN
         Set(t, [(IF e = NoError THEN [call[t] EXCEPT !.pc = "process"]
                 ELSE IF version = "initial" THEN ReturnNone(t, "validation")
                 ELSE Raise(t, e, "validation"))
                EXCEPT !.stages = Append(@, "payment")])
    /\ UNCHANGED <<version, threads, notifier, sink, ledger, refunds, apiKey, calls>>

\* what stripe.Charge.create does: it returns a Charge or raises StripeError
GatewayOutcomes(id) ==
    [ok : {TRUE}, status : GatewayStatuses, msg : {""}, id : {id}]
        \cup [ok : {FALSE}, status : {"none"}, msg : GatewayErrors, id : {0}]

\* the Charge the gateway creates for payment p: the amount is the one asked
GatewayCharge(p, out) == [status |-> out.status, amount |-> p.amount, id |-> out.id]

\* StripePaymentProcessor.process_transaction of srp, ocp, lsp (and the try
\* block of initial): the Charge returned, or the exception raised
ProcessTransaction(v, p, out) ==
    IF out.ok THEN [raised |-> NoError, charge |-> GatewayCharge(p, out)]
    ELSE [raised |-> CASE v = "lsp" -> ValueError("Payment processing failed")
                       [] v = "ocp" -> ValueError("Payment failed")
                       [] OTHER -> StripeError(out.msg),
          charge |-> NoCharge]

\* a process_transaction of isp that reports amount 0 for a failed charge, as
\* refund_payment does
IspProcessTransactionZeroAmount(p, out) ==
    IF out.ok
    THEN [status |-> out.status, amount |-> p.amount, transaction_id |-> out.id,
          message |-> "Payment Successful"]
    ELSE [status |-> "failed", amount |-> 0, transaction_id |-> 0, message |-> out.msg]

\* StripePaymentProcessor.process_transaction of isp: always a PaymentResponse
IspProcessTransaction(p, out) ==
    IF out.ok
    THEN [status |-> GatewayCharge(p, out).status,
          amount |-> GatewayCharge(p, out).amount,
          transaction_id |-> GatewayCharge(p, out).id,
          message |-> "Payment Successful"]
    ELSE [status |-> "failed", amount |-> p.amount, transaction_id |-> 0,
          message |-> out.msg]

\* a process_transaction that goes on to notify and log after the processor
\* raised
ProcessFailureLogged(t, e) == [call[t] EXCEPT !.pc = "notify"]

\* an exception of the processor leaves PaymentService.process_transaction
\* (`except StripeError as e: raise e`; a ValueError is not caught at all);
\* initial prints it and returns
ProcessFailure(t, e) ==
    IF version = "initial" THEN ReturnNone(t, "processor") ELSE Raise(t, e, "processor")

\* the charge step: stripe.api_key is assigned, then the gateway is called
Process(t) ==
    /\ call[t].pc = "process"
    /\ apiKey' = EnvKey
    /\ \E out \in GatewayOutcomes(Len(ledger) + 1) :
          LET r == ProcessTransaction(version, call[t].payment, out) IN
            /\ ledger' = IF out.ok THEN Append(ledger, GatewayCharge(call[t].payment, out))
                          ELSE ledger
            /\ Set(t, [(IF r.raised = NoError
                         THEN [call[t] EXCEPT !.pc = "notify", !.charge = r.charge]
                         ELSE ProcessFailure(t, r.raised))
                        EXCEPT !.nGateway = @ + 1, !.gateway = out,
                               !.stages = Append(@, "processor")])
    /\ UNCHANGED <<version, threads, notifier, sink, refunds, calls>>

\* isp: the caller calls the processor itself and gets its PaymentResponse
IspProcess(t) ==
    /\ call[t].pc = "isp_process"
    /\ apiKey' = EnvKey
    /\ \E out \in GatewayOutcomes(Len(ledger) + 1) :
          LET r == IspProcessTransaction(call[t].payment, out) IN
            /\ ledger' = IF out.ok THEN Append(ledger, GatewayCharge(call[t].payment, out))
                          ELSE ledger
            /\ Set(t, [call[t] EXCEPT !.pc = "done", !.response = r,
                                       !.returned = "response", !.nGateway = @ + 1,
                                       !.gateway = out,
                                       !.stages = Append(@, "processor")])
    /\ UNCHANGED <<version, threads, notifier, sink, refunds, calls>>

\* the caller calls refund_payment(transaction_id): the id of a charge made,
\* or one the gateway does not know
BeginRefund(t) ==
    /\ version = "isp"
    /\ t \in threads
    /\ call[t].pc = "idle"
    /\ calls < CallBound
    /\ \E id \in 1..(Len(ledger) + 1) :
          Set(t, [Idle EXCEPT !.pc = "isp_refund", !.op = "refund_payment",
                              !.transaction_id = id,
                              !.tx = calls + 1, !.sink0 = sink, !.key0 = apiKey])
    /\ calls' = calls + 1
    /\ UNCHANGED <<version, threads, notifier, sink, ledger, refunds, apiKey>>

\* the status of a Refund the gateway returns
RefundStatuses == {"succeeded", "pending"}

\* the gateway refunds a charge it knows, that succeeded and has no refund
Refundable(id) ==
    /\ id \in 1..Len(ledger)
    /\ ledger[id].status = "succeeded"
    /\ \A i \in 1..Len(refunds) : refunds[i].charge # id

\* the text of the StripeError for a charge that is not refundable
RefundRejection(id) ==
    IF id \notin 1..Len(ledger) THEN "resource_missing"
    ELSE IF ledger[id].status # "succeeded" THEN "charge_not_refundable"
    ELSE "charge_already_refunded"

\* what stripe.Refund.create(charge=transaction_id) does: it returns a Refund
\* or raises StripeError
RefundOutcomes(id) ==
    IF Refundable(id)
    THEN [ok : {TRUE}, status : RefundStatuses, msg : {""}, id : {Len(refunds) + 1}]
            \cup [ok : {FALSE}, status : {"none"}, msg : GatewayErrors, id : {0}]
    ELSE {[ok |-> FALSE, status |-> "none", msg |-> RefundRejection(id), id |-> 0]}

\* the Refund the gateway creates for charge id: the whole amount of the charge
GatewayRefund(id, out) ==
    [charge |-> id, status |-> out.status, amount |-> ledger[id].amount, id |-> out.id]

\* a refund_payment that gives back the transaction_id it was called with
\* when the refund failed
RefundPaymentEchoesId(id, out) ==
    IF out.ok
    THEN [status |-> out.status, amount |-> ledger[id].amount,
          transaction_id |-> out.id, message |-> "Refund Succesful"]
    ELSE [status |-> "failed", amount |-> 0, transaction_id |-> id, message |-> out.msg]

\* StripePaymentProcessor.refund_payment: always a PaymentResponse
RefundPayment(id, out) ==
    IF out.ok
    THEN [status |-> GatewayRefund(id, out).status,
          amount |-> GatewayRefund(id, out).amount,
          transaction_id |-> GatewayRefund(id, out).id,
          message |-> "Refund Succesful"]
    ELSE [status |-> "failed", amount |-> 0, transaction_id |-> 0, message |-> out.msg]

\* isp: refund_payment runs: stripe.api_key is assigned, then the gateway is
\* asked for the refund
IspRefund(t) ==
    /\ call[t].pc = "isp_refund"
    /\ apiKey' = EnvKey
    /\ \E out \in RefundOutcomes(call[t].transaction_id) :
          LET r == RefundPayment(call[t].transaction_id, out) IN
            /\ refunds' = IF out.ok
                           THEN Append(refunds, GatewayRefund(call[t].transaction_id, out))
                           ELSE refunds
            /\ Set(t, [call[t] EXCEPT !.pc = "done", !.response = r,
                                       !.returned = "response", !.nGateway = @ + 1,
                                       !.gateway = out,
                                       !.stages = Append(@, "processor")])
    /\ UNCHANGED <<version, threads, notifier, sink, ledger, calls>>

\* the caller calls recurring_payment(customer_data, payment_data)
BeginRecurring(t, custs, pays) ==
    /\ version = "isp"
    /\ t \in threads
    /\ call[t].pc = "idle"
    /\ calls < CallBound
    /\ \E c \in custs, p \in pays :
          Set(t, [Idle EXCEPT !.pc = "isp_recurring", !.op = "recurring_payment",
                              !.customer = c, !.payment = p,
                              !.tx = calls + 1, !.sink0 = sink, !.key0 = apiKey])
    /\ calls' = calls + 1
    /\ UNCHANGED <<version, threads, notifier, sink, ledger, refunds, apiKey>>

\* the except clause of recurring_payment: a StripeError becomes a
\* PaymentResponse of status "Failed"; any other exception leaves the method
RecurringFailure(t, e) ==
    IF e.type = "StripeError"
    THEN [call[t] EXCEPT !.pc = "done", !.returned = "response",
                         !.response = [status |-> "Failed", amount |-> 0,
                                       transaction_id |-> 0, message |-> e.msg]]
    ELSE Raise(t, e, "processor")

\* recurring_payment, first step: stripe.api_key is assigned and
\* _get_or_create_customer is called; its body is `pass`: it calls no gateway
\* and returns None
RecurringGetOrCreateCustomer(t) ==
    /\ call[t].pc = "isp_recurring"
    /\ apiKey' = EnvKey
    /\ Set(t, [call[t] EXCEPT !.pc = "isp_attach",
                               !.stages = Append(@, "_get_or_create_customer")])
    /\ UNCHANGED <<version, threads, notifier, sink, ledger, refunds, calls>>

\* recurring_payment, second step: self._attach_payment_method is looked up;
\* StripePaymentProcessor defines no such method, so the lookup raises
\* AttributeError, which `except StripeError` does not catch.  The steps
\* _set_default_payment_method and stripe.Subscription.create are never
\* reached.
RecurringAttachPaymentMethod(t) ==
    /\ call[t].pc = "isp_attach"
    /\ Set(t, RecurringFailure(t, AttributeError("_attach_payment_method")))
    /\ UNCHANGED <<version, threads, notifier, sink, ledger, refunds, apiKey, calls>>

Message(channel, to) == [channel |-> channel, to |-> to]

\* a single Notifier that tests the phone key with `if` where the source has
\* `elif`: a customer with both keys gets both confirmations
SendConfirmationIfIf(k, c) ==
    CASE k = "email" ->
            [sent |-> <<Message("email", c.contact_info.email)>>, raised |-> NoError]
      [] k = "sms" ->
            [sent |-> <<Message("sms", c.contact_info.phone)>>, raised |-> NoError]
      [] k = "base" -> [sent |-> <<>>, raised |-> TypeError]
      [] OTHER ->
            [sent |-> (IF c.contact_info.email # None
                       THEN <<Message("email", c.contact_info.email)>> ELSE <<>>)
                      \o (IF c.contact_info.phone # None
                          THEN <<Message("sms", c.contact_info.phone)>> ELSE <<>>),
             raised |-> NoError]

\* an SMSNotifier that does not override send_confirmation of Notifier
SendConfirmationSmsNotOverridden(k, c) ==
    CASE k = "email" ->
            [sent |-> <<Message("email", c.contact_info.email)>>, raised |-> NoError]
      [] k \in {"sms", "base"} -> [sent |-> <<>>, raised |-> TypeError]
      [] OTHER ->
            IF c.contact_info.email # None
            THEN [sent |-> <<Message("email", c.contact_info.email)>>, raised |-> NoError]
            ELSE IF c.contact_info.phone # None
            THEN [sent |-> <<Message("sms", c.contact_info.phone)>>, raised |-> NoError]
            ELSE [sent |-> <<>>, raised |-> NoError]

\* a single Notifier whose phone branch is `else` where the source has
\* `elif "phone" in ...`: with neither key it sends an SMS to nobody
SendConfirmationElseSms(k, c) ==
    CASE k = "email" ->
            [sent |-> <<Message("email", c.contact_info.email)>>, raised |-> NoError]
      [] k = "sms" ->
            [sent |-> <<Message("sms", c.contact_info.phone)>>, raised |-> NoError]
      [] k = "base" -> [sent |-> <<>>, raised |-> TypeError]
      [] OTHER ->
            IF c.contact_info.email # None
            THEN [sent |-> <<Message("email", c.contact_info.email)>>, raised |-> NoError]
            ELSE [sent |-> <<Message("sms", c.contact_info.phone)>>, raised |-> NoError]

\* a single Notifier that tests the phone key before the email key
SendConfirmationPhoneFirst(k, c) ==
    CASE k = "email" ->
            [sent |-> <<Message("email", c.contact_info.email)>>, raised |-> NoError]
      [] k = "sms" ->
            [sent |-> <<Message("sms", c.contact_info.phone)>>, raised |-> NoError]
      [] k = "base" -> [sent |-> <<>>, raised |-> TypeError]
      [] OTHER ->
            IF c.contact_info.phone # None
            THEN [sent |-> <<Message("sms", c.contact_info.phone)>>, raised |-> NoError]
            ELSE IF c.contact_info.email # None
            THEN [sent |-> <<Message("email", c.contact_info.email)>>, raised |-> NoError]
            ELSE [sent |-> <<>>, raised |-> NoError]

\* send_confirmation of notifier kind k: the messages sent and the exception
\* raised.  "single" is the Notifier of srp and the if/elif of initial.
SendConfirmation(k, c) ==
    CASE k = "email" ->
            [sent |-> <<Message("email", c.contact_info.email)>>, raised |-> NoError]
      [] k = "sms" ->
            [sent |-> <<Message("sms", c.contact_info.phone)>>, raised |-> NoError]
      [] k = "base" -> [sent |-> <<>>, raised |-> TypeError]
      [] OTHER ->
            IF c.contact_info.email # None
            THEN [sent |-> <<Message("email", c.contact_info.email)>>, raised |-> NoError]
            ELSE IF c.contact_info.phone # None
            THEN [sent |-> <<Message("sms", c.contact_info.phone)>>, raised |-> NoError]
            ELSE [sent |-> <<>>, raised |-> NoError]

\* a process_transaction that catches the notifier's exception and goes on to
\* the logger
NotifyFailureLogged(t, e) == [call[t] EXCEPT !.pc = "log_open"]

\* an exception of the notifier leaves PaymentService.process_transaction:
\* nothing catches it, and logger.log is not reached
NotifyFailure(t, e) == Raise(t, e, "notifier")

\* the notification step
Notify(t) ==
    /\ call[t].pc = "notify"
    /\ LET r == SendConfirmation(notifier[t], call[t].customer) IN
         Set(t, [(IF r.raised # NoError THEN NotifyFailure(t, r.raised)
                  ELSE IF version = "initial" /\ r.sent = <<>>
                  THEN ReturnNone(t, "notifier")
                  ELSE [call[t] EXCEPT !.pc = "log_open"])
                 EXCEPT !.nNotify = @ + 1, !.sent = @ \o r.sent,
                        !.stages = Append(@, "notifier")])
    /\ UNCHANGED <<version, threads, notifier, sink, ledger, refunds, apiKey, calls>>

\* a log that swallows the OSError, so that process_transaction returns
LogFailureSwallowed(t) ==
    [call[t] EXCEPT !.pc = "done", !.returned = "charge", !.buf = <<>>]

\* an OSError of the file leaves log and PaymentService.process_transaction
LogFailure(t) == Raise(t, OSError, "logger")

\* logger.log is called: open(self.log_file, "a"), which may fail
LogOpen(t) ==
    /\ call[t].pc = "log_open"
    /\ \E ok \in BOOLEAN :
          Set(t, [(IF ok THEN [call[t] EXCEPT !.pc = "log_write1"] ELSE LogFailure(t))
                  EXCEPT !.nLog = @ + 1, !.sinkError = ~ok,
                         !.stages = Append(@, "logger")])
    /\ UNCHANGED <<version, threads, notifier, sink, ledger, refunds, apiKey, calls>>

\* log_file.write(f"{name} paid {amount}\n")
LogWrite1(t) ==
    /\ call[t].pc = "log_write1"
    /\ LET line == PaidLine(call[t].customer.name, call[t].payment.amount, call[t].tx) IN
         IF WrittenThrough(line)
         THEN \E ok \in BOOLEAN :
                /\ sink' = IF ok THEN Append(sink, line) ELSE sink
                /\ Set(t, [(IF ok
                             THEN [call[t] EXCEPT !.pc = "log_write2", !.nLines = @ + 1]
                             ELSE LogFailure(t))
                            EXCEPT !.sinkError = ~ok])
         ELSE /\ sink' = sink
              /\ Set(t, [call[t] EXCEPT !.pc = "log_write2", !.buf = Append(@, line)])
    /\ UNCHANGED <<version, threads, notifier, ledger, refunds, apiKey, calls>>

\* log_file.write(f"Payment status: {status}\n")
LogWrite2(t) ==
    /\ call[t].pc = "log_write2"
    /\ Set(t, [call[t] EXCEPT !.pc = "log_close",
                               !.buf = Append(@, StatusLine(call[t].charge.status, call[t].tx))])
    /\ UNCHANGED <<version, threads, notifier, sink, ledger, refunds, apiKey, calls>>

\* a process_transaction that ends after logger.log without `return charge`
ReturnValueNone(v) == "None"

\* what process_transaction returns after logger.log
ReturnValue(v) == IF v = "initial" THEN "None" ELSE "charge"

\* the end of the with block flushes the buffer to the file and closes it;
\* then process_transaction returns
LogClose(t) ==
    /\ call[t].pc = "log_close"
    /\ \E ok \in BOOLEAN :
          /\ sink' = IF ok THEN sink \o call[t].buf ELSE sink
          /\ Set(t, [(IF ok
                       THEN [call[t] EXCEPT !.pc = "done", !.returned = ReturnValue(version),
                                            !.nLines = @ + Len(call[t].buf), !.buf = <<>>]
                       ELSE LogFailure(t))
                      EXCEPT !.sinkError = ~ok])
    /\ UNCHANGED <<version, threads, notifier, ledger, refunds, apiKey, calls>>

\* the caller has the result (or the exception) and drops the frame
Collect(t) ==
    /\ call[t].pc \in {"done", "failed"}
    /\ Set(t, Idle)
    /\ UNCHANGED <<version, threads, notifier, sink, ledger, refunds, apiKey, calls>>

Step(t) ==
    \/ ValidateCustomer(t)
    \/ ValidatePayment(t)
    \/ Process(t)
    \/ Notify(t)
    \/ LogOpen(t)
    \/ LogWrite1(t)
    \/ LogWrite2(t)
    \/ LogClose(t)
    \/ Collect(t)

Next ==
    \E t \in Threads :
        \/ Begin(t, CallCustomers(version), Payments)
        \/ IspProcess(t)
        \/ BeginRefund(t)
        \/ IspRefund(t)
        \/ BeginRecurring(t, CallCustomers(version), Payments)
        \/ RecurringGetOrCreateCustomer(t)
        \/ RecurringAttachPaymentMethod(t)
        \/ Step(t)

Spec == Init /\ [][Next]_vars

\* two threads of one ocp or lsp program call concurrently
InitConc == InitWith(Threads) /\ version \in {"ocp", "lsp"}

NextConc ==
    \E t \in Threads :
        \/ Begin(t, ConcCustomers, ConcPayments)
        \/ Step(t)

SpecConc == InitConc /\ [][NextConc]_vars

(* ------------------------------- claims ------------------------------- *)
Terminal(t) == call[t].pc \in {"done", "failed"}

Ran(t, stage) == \E i \in 1..Len(call[t].stages) : call[t].stages[i] = stage

\* the call of t asked the gateway for a charge and the gateway refused
GatewayRejected(t) == call[t].nGateway >= 1 /\ ~call[t].gateway.ok

\* C1: in a PaymentService call whose customer or payment validator fails,
\* the call never gets past validation and ends with the validator's
\* ValueError raised to the caller; the gateway, the notifier and the logger
\* are not invoked, no confirmation is sent and the file is as it was.
C1_ValidationFailureStopsPipeline ==
    \A t \in Threads :
        (/\ version \in ServiceVersions
         /\ call[t].pc # "idle"
         /\ \/ CustomerValidate(version, call[t].customer) # NoError
            \/ PaymentValidate(version, call[t].payment) # NoError)
        => /\ call[t].pc \in {"validate_customer", "validate_payment", "failed"}
           /\ call[t].pc = "failed" =>
                 /\ call[t].failedAt = "validation"
                 /\ call[t].raised.type = "ValueError"
                 /\ call[t].returned = "nothing"
           /\ call[t].nGateway = 0 /\ call[t].nNotify = 0 /\ call[t].nLog = 0
           /\ call[t].sent = <<>>
           /\ call[t].nLines = 0 /\ sink = call[t].sink0

\* C1's case: a customer with a phone only pays amount 0, after an earlier call
\* was logged
C1_Witness ==
    \E t \in Threads :
        /\ version = "lsp" /\ call[t].pc = "failed"
        /\ call[t].customer.name = "Al" /\ call[t].customer.contact_info.phone = "+1555"
        /\ call[t].payment = [amount |-> 0, source |-> "tok_visa"]
        /\ call[t].raised = NonPositiveAmount
        /\ sink # <<>>

\* C2 as claimed: when create-charge fails, process_transaction of the charge
\* processor (isp, lsp) does not raise and the call is not aborted.
C2_ProcessorNeverRaises ==
    \A t \in Threads :
        (version \in {"isp", "lsp"} /\ GatewayRejected(t))
        => call[t].raised = NoError /\ call[t].pc # "failed"

\* C2 amended: when create-charge fails, the processor of isp returns
\* PaymentResponse{failed, the payment's amount, no transaction id, the error
\* text}; the processors of lsp, ocp and srp raise (ValueError, ValueError,
\* the StripeError itself) and the PaymentService call ends there, with the
\* notifier and the logger not invoked.
C2_GatewayFailureByVersion ==
    \A t \in Threads :
        (call[t].op = "process_transaction" /\ GatewayRejected(t)) =>
            /\ version = "isp" =>
                  /\ call[t].pc = "done" /\ call[t].raised = NoError
                  /\ call[t].returned = "response"
                  /\ call[t].response =
                        [status |-> "failed", amount |-> call[t].payment.amount,
                         transaction_id |-> 0, message |-> call[t].gateway.msg]
            /\ version \in ServiceVersions =>
                  /\ call[t].pc = "failed" /\ call[t].failedAt = "processor"
                  /\ call[t].raised =
                        CASE version = "lsp" -> ValueError("Payment processing failed")
                          [] version = "ocp" -> ValueError("Payment failed")
                          [] OTHER -> StripeError(call[t].gateway.msg)
                  /\ call[t].nNotify = 0 /\ call[t].nLog = 0 /\ call[t].nLines = 0

C2_Witness ==
    \E t \in Threads :
        /\ version = "isp" /\ call[t].pc = "done"
        /\ call[t].payment.amount = 100
        /\ call[t].gateway.msg = "card_declined"
        /\ call[t].response.status = "failed"

\* the entry of the call of t: its two lines
EntryOf(t) ==
    << [kind |-> "paid", name |-> call[t].customer.name,
        amount |-> call[t].payment.amount, status |-> "", tx |-> call[t].tx],
       [kind |-> "status", name |-> "", amount |-> 0,
        status |-> call[t].gateway.status, tx |-> call[t].tx] >>

\* the notifier of the call of t returns (and, in initial, finds a channel)
NotifierReturns(t) ==
    /\ notifier[t] # "base"
    /\ version = "initial" =>
          \/ call[t].customer.contact_info.email # None
          \/ call[t].customer.contact_info.phone # None

\* C3 as claimed: every call that reached the processor stage (and met no
\* error of the notifier or of the file) has appended exactly one entry,
\* whether the gateway accepted or rejected the charge.
C3_OneEntryWhateverOutcome ==
    \A t \in Threads :
        (/\ version \in {"initial", "srp", "ocp", "lsp"}
         /\ Terminal(t) /\ call[t].nGateway >= 1
         /\ NotifierReturns(t) /\ ~call[t].sinkError)
        => call[t].nLines = 2

\* C3 amended: a call whose gateway returns a Charge (of any status), whose
\* notifier returns and whose file write succeeds appends exactly one entry,
\* its two lines, after the earlier lines; a call whose gateway rejects the
\* charge invokes no logger and appends nothing; in every call the earlier
\* lines stay as they were.
C3_OneEntryPerLoggedCall ==
    \A t \in Threads :
        (version \in {"initial", "srp", "ocp", "lsp"} /\ call[t].pc # "idle")
        => /\ SubSeq(sink, 1, Len(call[t].sink0)) = call[t].sink0
           /\ (Terminal(t) /\ call[t].gateway.ok /\ NotifierReturns(t) /\ ~call[t].sinkError)
                 => /\ call[t].pc = "done"
                    /\ call[t].nLog = 1 /\ call[t].nLines = 2
                    /\ sink = call[t].sink0 \o EntryOf(t)
           /\ GatewayRejected(t)
                 => /\ Terminal(t)
                    /\ call[t].nLog = 0 /\ call[t].nLines = 0
                    /\ sink = call[t].sink0

\* C3's case: a rejected charge after an earlier call was logged
C3_Witness ==
    \E t \in Threads :
        /\ version = "lsp" /\ call[t].pc = "failed" /\ GatewayRejected(t)
        /\ Len(sink) = 2 /\ sink[2].status = "failed"

\* the charge the call of t made is still at the gateway and nothing was refunded
ChargeStands(t) ==
    /\ call[t].charge.id \in 1..Len(ledger)
    /\ ledger[call[t].charge.id] = call[t].charge
    /\ refunds = <<>>

\* C4: when the gateway succeeds with charge id c, the processor of isp
\* returns {succeeded, the payment's amount, c}; a PaymentService call returns
\* the Charge {succeeded, the payment's amount, c} and has put exactly the two
\* lines "<name> paid <amount>", "Payment status: succeeded" in the file, in
\* this order, after the earlier lines.  (The only other end of such a
\* PaymentService call is an exception of the notifier or of the file.)
C4_SuccessfulPayment ==
    \A t \in Threads :
        (/\ call[t].op = "process_transaction"
         /\ Terminal(t) /\ call[t].gateway.ok /\ call[t].gateway.status = "succeeded")
        => /\ call[t].gateway.id >= 1
           /\ version = "isp" =>
                 /\ call[t].pc = "done" /\ call[t].returned = "response"
                 /\ call[t].response =
                       [status |-> "succeeded", amount |-> call[t].payment.amount,
                        transaction_id |-> call[t].gateway.id,
                        message |-> "Payment Successful"]
           /\ version \in ServiceVersions =>
                 /\ CustomerValidate(version, call[t].customer) = NoError
                 /\ PaymentValidate(version, call[t].payment) = NoError
                 /\ \/ /\ call[t].pc = "done" /\ call[t].returned = "charge"
                       /\ call[t].charge =
                             [status |-> "succeeded", amount |-> call[t].payment.amount,
                              id |-> call[t].gateway.id]
                       /\ call[t].nLines = 2
                       /\ sink = call[t].sink0 \o
                             << [kind |-> "paid", name |-> call[t].customer.name,
                                 amount |-> call[t].payment.amount, status |-> "",
                                 tx |-> call[t].tx],
                                [kind |-> "status", name |-> "", amount |-> 0,
                                 status |-> "succeeded", tx |-> call[t].tx] >>
                    \/ /\ call[t].pc = "failed"
                       /\ \/ call[t].failedAt = "notifier" /\ notifier[t] = "base"
                          \/ call[t].failedAt = "logger" /\ call[t].sinkError

\* C4's case: Alice pays 100, the gateway answers with charge 1
C4_Witness ==
    \E t \in Threads :
        /\ version = "lsp" /\ call[t].pc = "done"
        /\ call[t].customer =
              [name |-> "Al",
               contact_info |-> [email |-> "a@x.com", phone |-> None, extra |-> FALSE]]
        /\ call[t].payment = [amount |-> 100, source |-> "tok_visa"]
        /\ call[t].charge = [status |-> "succeeded", amount |-> 100, id |-> 1]
        /\ Len(sink) = 2 /\ sink[1].name = "Al" /\ sink[1].amount = 100
        /\ sink[2].status = "succeeded"

\* C5 as claimed: in a call whose notifier raised after the processor stage,
\* the logger is still invoked and the call's entry is appended.
C5_NotifierErrorNotFatal ==
    \A t \in Threads :
        (Terminal(t) /\ Ran(t, "notifier") /\ notifier[t] = "base" /\ ~call[t].sinkError)
        => call[t].nLog = 1 /\ call[t].nLines = 2

\* C5 amended: in a call whose notifier raises after the processor stage (the
\* send_confirmation of the Notifier protocol itself), the exception leaves
\* process_transaction: the call fails with it, the logger is not invoked and
\* nothing is appended; the charge is not reversed.
C5_NotifierErrorAborts ==
    \A t \in Threads :
        (Ran(t, "notifier") /\ notifier[t] = "base")
        => /\ call[t].pc = "failed" /\ call[t].failedAt = "notifier"
           /\ call[t].raised = TypeError
           /\ call[t].returned = "nothing"
           /\ call[t].nLog = 0 /\ call[t].nLines = 0 /\ sink = call[t].sink0
           /\ call[t].nGateway = 1 /\ ChargeStands(t)

C5_Witness ==
    \E t \in Threads :
        /\ version = "lsp" /\ notifier[t] = "base"
        /\ call[t].pc = "failed" /\ call[t].failedAt = "notifier"
        /\ call[t].charge.status = "succeeded"
        /\ call[t].sent = <<>> /\ sink = <<>> /\ Len(ledger) = 2

\* C6: in a call whose write to the file fails, the OSError is raised to the
\* caller (the call does not return), the logger was invoked once, and the
\* charge and the confirmation of that call stay: the gateway was called
\* once, the charge is at the gateway, nothing was refunded.
C6_SinkFailureIsFatal ==
    \A t \in Threads :
        call[t].sinkError
        => /\ call[t].pc = "failed" /\ call[t].failedAt = "logger"
           /\ call[t].raised = OSError
           /\ call[t].returned = "nothing"
           /\ call[t].nLog = 1
           /\ call[t].nGateway = 1 /\ ChargeStands(t)
           /\ call[t].nNotify = 1
           /\ version \in {"ocp", "lsp"} => Len(call[t].sent) = 1

C6_Witness ==
    \E t \in Threads :
        /\ version = "lsp" /\ call[t].sinkError /\ call[t].pc = "failed"
        /\ call[t].charge.status = "succeeded"
        /\ call[t].sent = <<Message("email", "a@x.com")>>

\* C7: in the file, the lines of one call are adjacent: between two lines of
\* a call there is no line of another call.
C7_EntriesNeverInterleave ==
    \A i, j \in 1..Len(sink) :
        (i < j /\ sink[i].tx = sink[j].tx)
        => \A k \in i..j : sink[k].tx = sink[i].tx

\* the payment validator ran in the call of t
PaymentValidatorRan(t) == Ran(t, "payment")

\* C8 as claimed: for amount <= 0, whatever the source, the payment validator
\* fails with NonPositiveAmount.
C8_NonPositiveAmountAlways ==
    \A t \in Threads :
        (/\ version \in ServiceVersions
         /\ PaymentValidatorRan(t) /\ call[t].payment.amount <= 0)
        => call[t].pc = "failed" /\ call[t].raised = NonPositiveAmount

\* C8 amended: for amount <= 0 the PaymentDataValidator of ocp and lsp fails,
\* with NonPositiveAmount when the source is non-empty and with the
\* missing-source error ("Invalid payment data") when the source is empty:
\* the source is checked first.  The validator of srp checks the source only:
\* it lets amount <= 0 with a non-empty source pass.
C8_NonPositiveAmountBySource ==
    \A t \in Threads :
        (PaymentValidatorRan(t) /\ call[t].payment.amount <= 0)
        => /\ version \in {"ocp", "lsp"} =>
                 /\ call[t].pc = "failed" /\ call[t].failedAt = "validation"
                 /\ call[t].raised =
                       IF call[t].payment.source = ""
                       THEN ValueError("Invalid payment data")
                       ELSE NonPositiveAmount
           /\ version = "srp" =>
                 IF call[t].payment.source = ""
                 THEN /\ call[t].pc = "failed"
                      /\ call[t].raised = ValueError("Invalida payment data")
                 ELSE call[t].failedAt # "validation"

C8_Witness ==
    \E t \in Threads :
        /\ version = "ocp" /\ call[t].pc = "failed"
        /\ call[t].customer.contact_info.email = "a@x.com"
        /\ call[t].payment = [amount |-> 0, source |-> "tok_visa"]
        /\ call[t].raised = NonPositiveAmount

\* C9: for a customer with an empty name, whatever the contact info and the
\* payment, the customer validator raises "missing name"; no later check and
\* no other stage runs, and the gateway is not called.
C9_EmptyNameIsMissingName ==
    \A t \in Threads :
        (/\ version \in ServiceVersions
         /\ Ran(t, "customer") /\ call[t].customer.name = "")
        => /\ call[t].pc = "failed" /\ call[t].failedAt = "validation"
           /\ call[t].raised = ValueError("Invalid customer data: missing name")
           /\ call[t].stages = <<"customer">>
           /\ call[t].nGateway = 0 /\ call[t].charge = NoCharge

\* C9's case: the contact info and the payment are invalid too
C9_Witness ==
    \E t \in Threads :
        /\ version = "lsp" /\ call[t].pc = "failed"
        /\ call[t].customer.name = ""
        /\ call[t].customer.contact_info.email = None
        /\ call[t].customer.contact_info.phone = None
        /\ call[t].payment = [amount |-> 0, source |-> ""]
        /\ call[t].raised = MissingName

\* the customer of the call of t has a name and neither email nor phone
NoChannel(t) ==
    /\ call[t].customer.name # ""
    /\ call[t].customer.contact_info.email = None
    /\ call[t].customer.contact_info.phone = None

\* C10 as claimed: for a customer with a name and neither email nor phone the
\* customer validator (srp, ocp, lsp) raises the no-channel error, and no
\* notifier is invoked.
C10_NoChannelAlwaysSignalled ==
    \A t \in Threads :
        (version \in ServiceVersions /\ Ran(t, "customer") /\ NoChannel(t))
        => /\ call[t].raised = NoReachableChannel
           /\ call[t].nNotify = 0

\* C10 amended: for such a customer the CustomerValidator of ocp and lsp
\* raises "missing email and phone", an error other than those of a missing
\* name and of missing contact info, and no notifier is invoked.  The
\* validator of srp has no such check: it raises "missing contact info" when
\* the contact_info dict is empty and lets a dict with other keys pass, and
\* the Notifier, then invoked, sends nothing.
C10_NoChannelByVersion ==
    \A t \in Threads :
        (Ran(t, "customer") /\ NoChannel(t))
        => /\ version \in {"ocp", "lsp"} =>
                 /\ call[t].pc = "failed" /\ call[t].failedAt = "validation"
                 /\ call[t].raised = ValueError("Invalid customer data: missing email and phone")
                 /\ call[t].raised # MissingName
                 /\ call[t].raised # MissingContactInfo(version)
                 /\ call[t].stages = <<"customer">>
                 /\ call[t].nNotify = 0 /\ call[t].sent = <<>>
           /\ version = "srp" =>
                 IF call[t].customer.contact_info.extra
                 THEN /\ ~(call[t].pc = "failed" /\ call[t].stages = <<"customer">>)
                      /\ call[t].sent = <<>>
                      /\ call[t].failedAt # "notifier"
                 ELSE /\ call[t].pc = "failed"
                      /\ call[t].raised = ValueError("Invalid customer data: missing contact info")
                      /\ call[t].nNotify = 0

C10_Witness ==
    \E t \in Threads :
        /\ version = "lsp" /\ call[t].pc = "failed" /\ NoChannel(t)
        /\ call[t].payment = [amount |-> 100, source |-> "tok_visa"]
        /\ call[t].raised = NoReachableChannel

\* the notifier of the call of t is EmailNotifier and the customer has no
\* email, or it is SMSNotifier and the customer has no phone
ChannelAbsent(t) ==
    \/ notifier[t] = "email" /\ call[t].customer.contact_info.email = None
    \/ notifier[t] = "sms" /\ call[t].customer.contact_info.phone = None

\* C11: EmailNotifier.send_confirmation for a customer without email, and
\* SMSNotifier.send_confirmation for a customer without phone, raise (the
\* call ends at the notifier) and send no message, also when the customer
\* passed validation through the other channel.
C11_AbsentChannelSignalled ==
    \A t \in Threads :
        (version \in {"ocp", "lsp"} /\ Ran(t, "notifier") /\ ChannelAbsent(t))
        => /\ call[t].pc = "failed" /\ call[t].failedAt = "notifier"
           /\ call[t].sent = <<>>

\* C12: a refund_payment call, for every transaction_id, does not raise and
\* returns a PaymentResponse.  When the gateway rejects the refund (a second
\* refund of the same charge included) the response is {failed, amount 0, no
\* transaction id, the error text}; when the gateway creates the refund, the
\* amount of the response is the amount of that refund at the gateway.
C12_RefundNeverRaises ==
    \A t \in Threads :
        (call[t].op = "refund_payment" /\ call[t].nGateway >= 1)
        => /\ call[t].pc = "done" /\ call[t].raised = NoError
           /\ call[t].returned = "response"
           /\ ~call[t].gateway.ok =>
                 call[t].response =
                    [status |-> "failed", amount |-> 0, transaction_id |-> 0,
                     message |-> call[t].gateway.msg]
           /\ call[t].gateway.ok =>
                 /\ call[t].gateway.id \in 1..Len(refunds)
                 /\ refunds[call[t].gateway.id].charge = call[t].transaction_id
                 /\ call[t].response.amount = refunds[call[t].gateway.id].amount
                 /\ call[t].response.transaction_id = call[t].gateway.id

\* C12's case: charge 1 was refunded, and a second refund of charge 1 is
\* rejected
C12_Witness ==
    \E t \in Threads :
        /\ version = "isp" /\ call[t].pc = "done" /\ call[t].op = "refund_payment"
        /\ call[t].transaction_id = 1
        /\ Len(refunds) = 1 /\ refunds[1].charge = 1 /\ refunds[1].amount = 100
        /\ call[t].gateway.msg = "charge_already_refunded"
        /\ call[t].response.status = "failed"

IsPrefix(s, r) == Len(s) <= Len(r) /\ SubSeq(r, 1, Len(s)) = s

\* the four steps of recurring_payment, in the order of the source
RecurringSteps ==
    <<"_get_or_create_customer", "_attach_payment_method",
      "_set_default_payment_method", "Subscription.create">>

\* C13: in a recurring_payment call the steps run in the order resolve or
\* create customer, attach payment method, set default payment method, create
\* subscription; a call that ends before all four steps ran (a step failed)
\* has not raised: it returned a PaymentResponse {failed, amount 0, no
\* transaction id}.
C13_RecurringFailureIsReturned ==
    \A t \in Threads :
        call[t].op = "recurring_payment"
        => /\ IsPrefix(call[t].stages, RecurringSteps)
           /\ (Terminal(t) /\ Len(call[t].stages) < Len(RecurringSteps))
                 => /\ call[t].pc = "done" /\ call[t].raised = NoError
                    /\ call[t].returned = "response"
                    /\ call[t].response.status = "failed"
                    /\ call[t].response.amount = 0
                    /\ call[t].response.transaction_id = 0

\* the programs that run the stages themselves: the PaymentService ones and
\* the monolith
Orchestrators == {"initial", "srp", "ocp", "lsp"}

\* the notifier stage of the call of t ran and ended without error
NotifierRanWithoutError(t) == Ran(t, "notifier") /\ call[t].failedAt # "notifier"

\* C14 as claimed: in one call the gateway is asked for a charge at most
\* once, at most one confirmation is sent, exactly one when the notifier stage
\* ran without error, and the logger is invoked at most once.
C14_ExactlyOneMessage ==
    \A t \in Threads :
        version \in Orchestrators
        => /\ call[t].nGateway <= 1 /\ call[t].nLog <= 1
           /\ Len(call[t].sent) <= 1
           /\ NotifierRanWithoutError(t) => Len(call[t].sent) = 1

\* C14 amended: in one call no stage runs twice: the gateway is asked for a
\* charge at most once, the notifier is invoked at most once and sends at
\* most one confirmation, the logger is invoked at most once.  When the
\* notifier stage ran without error exactly one confirmation was sent, except
\* by the Notifier of srp for a contact_info with neither an email nor a phone
\* key, which sends none.  (For such a contact_info initial_code reports that
\* there is no valid contact information and ends the call there.)
C14_NoStageRetried ==
    \A t \in Threads :
        version \in Orchestrators
        => /\ call[t].nGateway <= 1 /\ call[t].nNotify <= 1 /\ call[t].nLog <= 1
           /\ \A i, j \in 1..Len(call[t].stages) :
                 call[t].stages[i] = call[t].stages[j] => i = j
           /\ Len(call[t].sent) <= 1
           /\ NotifierRanWithoutError(t) =>
                 Len(call[t].sent) =
                    IF /\ version = "srp"
                       /\ call[t].customer.contact_info.email = None
                       /\ call[t].customer.contact_info.phone = None
                    THEN 0 ELSE 1

\* C14's case: the srp call of a customer whose contact_info holds neither
\* key ran every stage once and sent nothing
C14_Witness ==
    \E t \in Threads :
        /\ version = "srp" /\ call[t].pc = "done"
        /\ call[t].customer.contact_info = [email |-> None, phone |-> None, extra |-> TRUE]
        /\ call[t].nGateway = 1 /\ call[t].nNotify = 1 /\ call[t].nLog = 1
        /\ call[t].sent = <<>>

\* the stages of an orchestration call, in the order of the source
StageOrder == <<"customer", "payment", "processor", "notifier", "logger">>

\* C15: in every orchestration call the stages run in the order customer
\* validation, payment validation, processor, notifier, logger.  The gateway
\* is not called before both validators accepted; the notifier is not invoked
\* before the processor returned a charge; no line is written (to the file or
\* to its buffer) before the notifier was invoked and returned.
C15_StagesInFixedOrder ==
    \A t \in Threads :
        version \in Orchestrators
        => /\ IsPrefix(call[t].stages, StageOrder)
           /\ call[t].nGateway >= 1 =>
                 /\ Ran(t, "customer") /\ Ran(t, "payment")
                 /\ CustomerValidate(version, call[t].customer) = NoError
                 /\ PaymentValidate(version, call[t].payment) = NoError
           /\ call[t].nNotify >= 1 =>
                 /\ Ran(t, "processor")
                 /\ call[t].gateway.ok
                 /\ call[t].charge = GatewayCharge(call[t].payment, call[t].gateway)
           /\ (call[t].nLog >= 1 \/ call[t].nLines >= 1 \/ call[t].buf # <<>>) =>
                 /\ Ran(t, "notifier") /\ call[t].nNotify = 1
                 /\ call[t].failedAt # "notifier"
           /\ call[t].pc \in {"log_open", "log_write1", "log_write2", "log_close"} =>
                 /\ Ran(t, "notifier")
                 /\ call[t].pc # "log_open" => Ran(t, "logger")

\* C15's case: a call that ran all five stages and returned
C15_Witness ==
    \E t \in Threads :
        /\ version = "lsp" /\ call[t].pc = "done"
        /\ call[t].stages = StageOrder
        /\ call[t].nGateway = 1 /\ call[t].nNotify = 1 /\ call[t].nLines = 2

\* C16: every PaymentResponse a processor operation of isp returns has status
\* succeeded or failed, whatever the gateway reported, and has a transaction
\* id only when its status is succeeded.
C16_StatusEnumerated ==
    \A t \in Threads :
        (version = "isp" /\ call[t].returned = "response")
        => /\ call[t].response.status \in {"succeeded", "failed"}
           /\ call[t].response.transaction_id # 0 =>
                 call[t].response.status = "succeeded"

\* the pcs at which the notifier or the logger of a call is about to run
AfterProcessor == {"notify", "log_open", "log_write1", "log_write2", "log_close"}

\* C17: a PaymentService call that returns (srp, ocp, lsp) returns the Charge
\* the processor produced: the status and id the gateway gave and the amount
\* charged, the Charge the gateway holds.  The steps of the notifier and of
\* the logger change neither that Charge nor the customer and payment data of
\* the call.
C17_ReturnsProcessorValue ==
    [][\A t \in Threads :
          /\ (version \in ServiceVersions /\ call[t].pc # "done" /\ call'[t].pc = "done")
                => /\ call'[t].returned = "charge"
                   /\ call'[t].charge =
                         [status |-> call[t].gateway.status,
                          amount |-> call[t].payment.amount,
                          id |-> call[t].gateway.id]
                   /\ call'[t].charge = ledger'[call[t].gateway.id]
          /\ (call[t].pc \in AfterProcessor /\ call'[t] # call[t] /\ call'[t].pc # "idle")
                => /\ call'[t].charge = call[t].charge
                   /\ call'[t].customer = call[t].customer
                   /\ call'[t].payment = call[t].payment
                   /\ call'[t].gateway = call[t].gateway
                   /\ ledger' = ledger /\ refunds' = refunds
      ]_vars

\* C17's case: a pending charge returned after the SMS was sent and the two
\* lines were written
C17_Witness ==
    \E t \in Threads :
        /\ version = "lsp" /\ notifier[t] = "sms"
        /\ call[t].pc = "done" /\ call[t].returned = "charge"
        /\ call[t].charge = [status |-> "pending", amount |-> 100, id |-> 1]
        /\ call[t].sent = <<Message("sms", "+1555")>>
        /\ call[t].nLines = 2

\* C18: no processor operation writes stripe.api_key during a call: while a
\* call runs, and when it has ended, the credential is what it was when the
\* call began.
C18_CredentialReadOnly ==
    \A t \in Threads :
        call[t].pc # "idle" => apiKey = call[t].key0

\* the calls of the behaviours in which every step of a call is taken: valid
\* customers, one without a name, one without a channel; a valid payment and
\* one of amount 0
FairCustomers ==
    [name : {"Al", LongName},
     contact_info : {[email |-> "a@x.com", phone |-> "+1555", extra |-> FALSE]}]
        \cup {[name |-> "",
               contact_info |-> [email |-> "a@x.com", phone |-> None, extra |-> FALSE]],
              [name |-> "Al",
               contact_info |-> [email |-> None, phone |-> None, extra |-> FALSE]]}

FairPayments == [amount : {0, 100}, source : {"tok_visa"}]

InitFair == InitWith({1}) /\ version \in Orchestrators

NextFair ==
    \E t \in Threads :
        \/ Begin(t, FairCustomers, FairPayments)
        \/ Step(t)

\* a call is one synchronous sequence of blocking calls, each of which
\* returns: the thread that began a call goes on taking its steps
SpecFair == InitFair /\ [][NextFair]_vars /\ \A t \in Threads : WF_vars(Step(t))

\* a stage of the call of t has failed: a validator rejected, the gateway
\* rejected, the notifier raised (or, in initial, found no channel), or the
\* file failed
StageFailed(t) ==
    \/ Ran(t, "customer") /\ CustomerValidate(version, call[t].customer) # NoError
    \/ Ran(t, "payment") /\ PaymentValidate(version, call[t].payment) # NoError
    \/ GatewayRejected(t)
    \/ Ran(t, "notifier") /\ ~NotifierReturns(t)
    \/ call[t].sinkError

\* the terminal states of a call: Done, all five stages run; Failed, the call
\* was ended by an exception (or, in initial, by an early return)
Done(t) == call[t].pc = "done" /\ call[t].failedAt = ""

Failed(t) == call[t].pc = "failed" \/ (call[t].pc = "done" /\ call[t].failedAt # "")

\* C19: every orchestration call that has begun reaches Done or Failed; it is
\* Failed exactly when one of its stages failed, at once, and Done only after
\* all five stages; a Failed call takes no further step but the caller's
\* dropping it: no stage runs, and the gateway and the file stay as they are.
C19_CallReachesDoneOrFailed ==
    /\ \A t \in Threads : (call[t].pc # "idle") ~> (Done(t) \/ Failed(t))
    /\ [](\A t \in Threads :
            /\ StageFailed(t) <=> Failed(t)
            /\ Done(t) => call[t].stages = StageOrder /\ ~StageFailed(t))
    /\ [][\A t \in Threads :
            Failed(t) => /\ call'[t] = call[t] \/ call'[t] = Idle
                         /\ sink' = sink /\ ledger' = ledger
        ]_vars

\* C19's case: a call that failed at the notifier, after the charge
C19_Witness ==
    \E t \in Threads :
        /\ version = "lsp" /\ Failed(t) /\ call[t].failedAt = "notifier"
        /\ call[t].stages = <<"customer", "payment", "processor", "notifier">>
        /\ call[t].customer.name = LongName

\* the call of t is one the claim compares: a PaymentService of ocp or lsp
\* built with EmailNotifier or with SMSNotifier, for a customer who has both
\* an email and a phone
Substitutable(t) ==
    /\ version \in {"ocp", "lsp"}
    /\ notifier[t] \in {"email", "sms"}
    /\ Truthy(call[t].customer.contact_info.email)
    /\ Truthy(call[t].customer.contact_info.phone)

\* the stages a finished call runs, by its data, the gateway's answer and
\* nothing else
ExpectedStages(t) ==
    IF ~Truthy(call[t].customer.name) THEN <<"customer">>
    ELSE IF ~Truthy(call[t].payment.source) \/ call[t].payment.amount <= 0
    THEN <<"customer", "payment">>
    ELSE IF ~call[t].gateway.ok THEN <<"customer", "payment", "processor">>
    ELSE StageOrder

\* C20: for a customer with both channels, what a finished call did is fixed
\* by the customer, the payment and the answers of the gateway and of the
\* file, the same for EmailNotifier and SMSNotifier: the stages run, the end
\* (returned or raised), the Charge returned, the lines appended.  The two
\* differ in the one confirmation sent only: an email to the customer's email
\* address, or an SMS to the customer's phone.
C20_NotifiersSubstitutable ==
    \A t \in Threads :
        (Substitutable(t) /\ Terminal(t))
        => /\ call[t].stages = ExpectedStages(t)
           /\ call[t].pc = "done" <=>
                 (call[t].stages = StageOrder /\ ~call[t].sinkError)
           /\ call[t].pc = "done" =>
                 /\ call[t].returned = "charge"
                 /\ call[t].charge =
                       [status |-> call[t].gateway.status,
                        amount |-> call[t].payment.amount,
                        id |-> call[t].gateway.id]
                 /\ sink = call[t].sink0 \o EntryOf(t)
           /\ call[t].pc = "failed" =>
                 /\ call[t].returned = "nothing"
                 /\ call[t].failedAt =
                       CASE Len(call[t].stages) <= 2 -> "validation"
                         [] Len(call[t].stages) = 3 -> "processor"
                         [] OTHER -> "logger"
                 /\ \E n \in 0..1 : sink = call[t].sink0 \o SubSeq(EntryOf(t), 1, n)
           /\ call[t].sent =
                 IF Len(call[t].stages) <= 3 THEN <<>>
                 ELSE IF notifier[t] = "email"
                 THEN <<[channel |-> "email", to |-> call[t].customer.contact_info.email]>>
                 ELSE <<[channel |-> "sms", to |-> call[t].customer.contact_info.phone]>>

\* C20's case: the SMSNotifier service ran the call of a customer with both
\* channels to its end
C20_Witness ==
    \E t \in Threads :
        /\ version = "ocp" /\ notifier[t] = "sms" /\ call[t].pc = "done"
        /\ call[t].customer =
              [name |-> "Al",
               contact_info |-> [email |-> "a@x.com", phone |-> "+1555", extra |-> FALSE]]
        /\ call[t].charge.status = "succeeded"
        /\ call[t].sent = <<Message("sms", "+1555")>>
        /\ Len(sink) = 4

\* no call is under way
Quiescent == \A t \in Threads : call[t].pc \in {"idle", "done", "failed"}

\* C21: the file only grows, by whole entries.  The file as it was when a
\* call began is a prefix of the file; a finished call has appended its two
\* lines when it reached the logger and the file did not fail, and nothing
\* otherwise; so between calls the file is a sequence of pairs, each
\* "<name> paid <amount>" line followed by the "Payment status" line of the
\* same call.
C21_SinkHoldsWholeEntries ==
    /\ \A t \in Threads :
          call[t].pc # "idle" =>
             /\ IsPrefix(call[t].sink0, sink)
             /\ Terminal(t) =>
                   sink = call[t].sink0 \o
                             (IF Ran(t, "logger") /\ ~call[t].sinkError
                              THEN EntryOf(t) ELSE <<>>)
    /\ Quiescent =>
          /\ Len(sink) % 2 = 0
          /\ \A i \in 1..Len(sink) :
                i % 2 = 1 => /\ sink[i].kind = "paid"
                             /\ i + 1 <= Len(sink)
                             /\ sink[i + 1].kind = "status"
                             /\ sink[i + 1].tx = sink[i].tx

\* the three checks of the monolith pass for the data of the call of t
ChecksPass(t) ==
    /\ Truthy(call[t].customer.name)
    /\ \/ call[t].customer.contact_info.email # None
       \/ call[t].customer.contact_info.phone # None
       \/ call[t].customer.contact_info.extra
    /\ Truthy(call[t].payment.source)

\* contact_info holds an "email" or a "phone" key
HasChannelKey(t) ==
    \/ call[t].customer.contact_info.email # None
    \/ call[t].customer.contact_info.phone # None

\* C22: in a finished call of the monolith (initial), the log is written if
\* and only if the three checks passed, the gateway returned a charge and
\* contact_info holds an email or a phone key; then, unless the file fails,
\* the call's two lines are appended, and in every other case the file is as
\* it was.  A customer whose contact_info is non-empty but holds neither key
\* is charged, and the call returns after the charge with nothing appended.
C22_MonolithLogsIffNotified ==
    \A t \in Threads :
        (version = "initial" /\ Terminal(t))
        => /\ call[t].nLog = 1 <=>
                 (ChecksPass(t) /\ call[t].gateway.ok /\ HasChannelKey(t))
           /\ call[t].nLog = 0 => call[t].nLines = 0 /\ sink = call[t].sink0
           /\ (call[t].nLog = 1 /\ ~call[t].sinkError) =>
                 call[t].nLines = 2 /\ sink = call[t].sink0 \o EntryOf(t)
           /\ (ChecksPass(t) /\ ~HasChannelKey(t)) =>
                 /\ call[t].nGateway = 1
                 /\ call[t].pc = "done" /\ call[t].returned = "None"
                 /\ call[t].sent = <<>>
                 /\ call[t].nLines = 0 /\ sink = call[t].sink0
                 /\ call[t].gateway.ok =>
                       /\ call[t].failedAt = "notifier"
                       /\ call[t].gateway.id \in 1..Len(ledger)
                       /\ ledger[call[t].gateway.id] =
                             [status |-> call[t].gateway.status,
                              amount |-> call[t].payment.amount,
                              id |-> call[t].gateway.id]

\* C22's case: a customer whose contact_info holds another key only was
\* charged 100, and nothing was logged
C22_Witness ==
    \E t \in Threads :
        /\ version = "initial" /\ call[t].pc = "done"
        /\ call[t].customer =
              [name |-> "Al",
               contact_info |-> [email |-> None, phone |-> None, extra |-> TRUE]]
        /\ call[t].payment = [amount |-> 100, source |-> "tok_visa"]
        /\ Len(ledger) = 1 /\ ledger[1].amount = 100 /\ ledger[1].status = "succeeded"
        /\ call[t].failedAt = "notifier"
        /\ sink = <<>>

\* C23: the single Notifier (srp, and the if/elif of initial) uses at most
\* one channel in a call, the email first: with an email key (whether or not
\* there is a phone key) the one confirmation is the email to that address;
\* the SMS is sent when there is a phone key and no email key; with neither
\* key nothing is sent, and in srp no error is signalled: the call goes on to
\* the logger (initial ends the call there).
C23_EmailTakesPrecedence ==
    \A t \in Threads :
        (version \in {"initial", "srp"} /\ Ran(t, "notifier"))
        => /\ Len(call[t].sent) <= 1
           /\ call[t].customer.contact_info.email # None =>
                 call[t].sent =
                    <<[channel |-> "email", to |-> call[t].customer.contact_info.email]>>
           /\ (/\ call[t].customer.contact_info.email = None
               /\ call[t].customer.contact_info.phone # None) =>
                 call[t].sent =
                    <<[channel |-> "sms", to |-> call[t].customer.contact_info.phone]>>
           /\ (/\ call[t].customer.contact_info.email = None
               /\ call[t].customer.contact_info.phone = None) =>
                 /\ call[t].sent = <<>>
                 /\ version = "srp" =>
                       /\ call[t].failedAt # "notifier"
                       /\ call[t].raised \in {NoError, OSError}
                       /\ call[t].pc = "log_open" \/ Ran(t, "logger")
                 /\ version = "initial" =>
                       /\ call[t].pc = "done" /\ call[t].failedAt = "notifier"
                       /\ call[t].raised = NoError /\ call[t].nLog = 0

\* C23's case: a customer with both keys got the email only, and the call
\* was logged
C23_Witness ==
    \E t \in Threads :
        /\ version = "srp" /\ call[t].pc = "done"
        /\ call[t].customer.contact_info.email = "a@x.com"
        /\ call[t].customer.contact_info.phone = "+1555"
        /\ call[t].sent = <<Message("email", "a@x.com")>>
        /\ call[t].nLines = 2

=============================================================================
